---- MODULE Spec2Model ----
(***************************************************************************)
(* A model of the nanvix microvm hypervisor: the command-line driver       *)
(* (src/src/main.c), the VM set-up and exit loop (src/src/microvm.c), the  *)
(* 32-bit ELF loader (src/src/elf.c) and the initrd loader                 *)
(* (src/src/initrd.c).                                                     *)
(*                                                                         *)
(* Byte quantities.  The program computes with uint32_t and with 64-bit    *)
(* size_t / off_t values; TLC's integers stop at 2^31 - 1.  A byte         *)
(* quantity is therefore kept exact as a record [pg, off] that stands for  *)
(* pg * PAGE_SIZE + off with 0 <= off < PAGE_SIZE.  A uint32_t is such a   *)
(* record with pg < Pages32 (2^20 pages of 4096 bytes = 2^32 bytes), and   *)
(* uint32_t arithmetic reduces pg modulo Pages32.                          *)
(***************************************************************************)
EXTENDS Integers, Sequences, FiniteSets, TLC

\* ------------------------------------------------------------------------
\* Program constants
\* ------------------------------------------------------------------------

\* microvm.h: #define PAGE_SIZE 4096
PAGE_SIZE == 4096

\* The number of pages in the 2^32 bytes a uint32_t addresses.
Pages32 == 1048576

\* The byte quantity pg * PAGE_SIZE + off, normalised.
Norm(pg, off) == [pg |-> pg + (off \div PAGE_SIZE), off |-> off % PAGE_SIZE]

\* A small byte count as a byte quantity.
Bytes(n) == Norm(0, n)

\* 64-bit (size_t) addition; the model's values stay far below 2^64.
AddW(a, b) == Norm(a.pg + b.pg, a.off + b.off)

\* Unsigned comparison a < b.
LtW(a, b) == a.pg < b.pg \/ (a.pg = b.pg /\ a.off < b.off)

\* Unsigned comparison a <= b.
LeW(a, b) == ~LtW(b, a)

\* Conversion to uint32_t: the value modulo 2^32.
U32(a) == [pg |-> a.pg % Pages32, off |-> a.off]

\* uint32_t addition, as in p_vaddr + p_memsz.
Add32(a, b) == U32(AddW(a, b))

\* uint32_t subtraction, as in last_address - first_address.
Sub32(a, b) == U32(Norm(a.pg - b.pg + Pages32 - 1, a.off - b.off + PAGE_SIZE))

\* size_t subtraction a - b for a >= b.
SubW(a, b) == Norm(a.pg - b.pg - 1, a.off - b.off + PAGE_SIZE)

\* The plain integer of a byte quantity below 2^31.
ToInt(a) == a.pg * PAGE_SIZE + a.off

\* elf.c: uint32_t first_address = UINT32_MAX
UINT32_MAX == [pg |-> Pages32 - 1, off |-> PAGE_SIZE - 1]

\* The zero byte quantity.
Zero == Bytes(0)

\* microvm.h: #define INITRD_BASE 0x00800000
INITRD_BASE == Bytes(8388608)

\* microvm.h: #define DEFAULT_MEMORY_SIZE (128 * 1024 * 1024)
DEFAULT_MEMORY_SIZE == Norm((128 * 1024 * 1024) \div PAGE_SIZE, 0)

\* microvm.h: STDOUT_PORT, STDIN_PORT; microvm.c: the shutdown port and value.
STDOUT_PORT == 233
STDIN_PORT == 233
SHUTDOWN_PORT == 1540
SHUTDOWN_VALUE == 8192

\* <elf.h> values the loader compares against.
ELFMAG == <<127, 69, 76, 70>>
ELFCLASS32 == 1
ELFDATA2LSB == 1
EV_CURRENT == 1
ET_EXEC == 2
EM_386 == 3
PT_LOAD == 1
PT_NOTE == 4

\* ------------------------------------------------------------------------
\* Bounds of the model and the inputs drawn within them
\* ------------------------------------------------------------------------

\* The most program headers an ELF input carries.
MaxPhnum == 2

\* The most vCPU exits one execution handles.
MaxExits == 3

\* The sequences over S of length at most n.
SeqUpTo(S, n) == UNION {[1..k -> S] : k \in 0..n}

\* File offset of the first segment byte in an ELF input, and the bytes there.
DataOff == 4096
KernelData == <<65, 66, 67>>

\* An Elf32_Phdr.
Phdr(t, v, memsz, filesz, o) ==
    [p_type |-> t, p_offset |-> o, p_vaddr |-> v, p_filesz |-> filesz,
     p_memsz |-> memsz]

\* The loadable headers of the ELF inputs.  At 1 MiB: a byte of data and a
\* byte of BSS (from either file offset), an empty segment, a segment whose
\* p_filesz exceeds its p_memsz, and one starting a byte later; at 7 MiB a
\* segment that spans INITRD_BASE; one page above INITRD_BASE a two-page
\* segment; on the last byte of 128 MiB and on the last page below 2^32,
\* segments that end inside, beyond or around the end of the address range,
\* one of them without file bytes.
LoadPhdrs ==
    {Phdr(PT_LOAD, Norm(256, 0), Bytes(2), Bytes(1), DataOff),
     Phdr(PT_LOAD, Norm(256, 0), Bytes(2), Bytes(1), DataOff + 1),
     Phdr(PT_LOAD, Norm(256, 0), Bytes(0), Bytes(0), DataOff),
     Phdr(PT_LOAD, Norm(256, 0), Bytes(1), Bytes(2), DataOff),
     Phdr(PT_LOAD, Norm(256, 1), Bytes(2), Bytes(1), DataOff + 2),
     Phdr(PT_LOAD, Norm(1792, 0), Norm(512, 0), Bytes(1), DataOff),
     Phdr(PT_LOAD, Norm(2049, 0), Norm(2, 0), Bytes(2), DataOff),
     Phdr(PT_LOAD, Norm(32767, 4095), Bytes(1), Bytes(2), DataOff),
     Phdr(PT_LOAD, Norm(32767, 4095), Bytes(2), Bytes(1), DataOff),
     Phdr(PT_LOAD, Norm(Pages32 - 1, 0), Norm(2, 0), Bytes(2), DataOff),
     Phdr(PT_LOAD, Norm(Pages32 - 1, 0), Bytes(2), Bytes(1), DataOff),
     Phdr(PT_LOAD, Norm(Pages32 - 1, 0), Norm(2, 0), Bytes(0), DataOff)}

\* Headers that are not loadable.
OtherPhdrs ==
    {Phdr(PT_NOTE, Bytes(0), Bytes(2), Bytes(2), DataOff),
     Phdr(PT_NOTE, Norm(Pages32 - 1, 0), Norm(2, 0), Bytes(2), DataOff)}

\* Elf32_Ehdr fields of a header that passes validation.
GoodEhdr ==
    [mag |-> ELFMAG, class |-> ELFCLASS32, data |-> ELFDATA2LSB,
     iversion |-> EV_CURRENT, e_type |-> ET_EXEC, e_machine |-> EM_386,
     e_version |-> EV_CURRENT, e_entry |-> Norm(256, 0)]

\* Headers that fail exactly one of the seven checks.
BadEhdrs ==
    {[GoodEhdr EXCEPT !.mag = <<127, 69, 76, 0>>],
     [GoodEhdr EXCEPT !.class = 2],
     [GoodEhdr EXCEPT !.data = 2],
     [GoodEhdr EXCEPT !.iversion = 0],
     [GoodEhdr EXCEPT !.e_type = 3],
     [GoodEhdr EXCEPT !.e_machine = 62],
     [GoodEhdr EXCEPT !.e_version = 0]}

\* An ELF input: header, program header table, segment bytes.
ElfFile(eh, phs) == [exists |-> TRUE, ehdr |-> eh, phdrs |-> phs, bytes |-> KernelData]

\* A path that cannot be opened.
NoFile == [exists |-> FALSE]

\* The ELF inputs of the loader specification.
ElfFiles ==
    {ElfFile(GoodEhdr, phs) : phs \in SeqUpTo(LoadPhdrs \cup OtherPhdrs, MaxPhnum)}
    \cup {ElfFile(eh, phs) : eh \in BadEhdrs,
          phs \in {<< >>, <<Phdr(PT_LOAD, Norm(256, 0), Bytes(2), Bytes(2), DataOff)>>}}
    \cup {NoFile}

\* The ELF inputs of the whole-program specification: a kernel at 1 MiB, a
\* kernel with no loadable segment, a rejected header and a missing file.
BootKernels ==
    {ElfFile(GoodEhdr, <<Phdr(PT_LOAD, Norm(256, 0), Norm(2, 0), Bytes(2), DataOff)>>),
     ElfFile(GoodEhdr, << >>),
     ElfFile([GoodEhdr EXCEPT !.e_machine = 62], << >>),
     NoFile}

\* Initrd file sizes: empty, one byte, a page, 5000 bytes, 4095 pages,
\* 16 MiB + 1, and a size no configured memory holds.
InitrdSizes ==
    {Bytes(0), Bytes(1), Bytes(4096), Bytes(5000), Norm(4095, 0), Norm(4096, 1),
     Norm(Pages32, 0)}

\* The byte every position of the initrd input holds.
InitrdFill == 33

\* An initrd input.
InitrdFile(n) == [exists |-> TRUE, st_size |-> n]

InitrdFiles == {InitrdFile(n) : n \in InitrdSizes} \cup {NoFile}

\* -memory arguments: the number and the suffix after it ("absent": no
\* -memory argument).
MemArg(n, sfx) == [n |-> n, suffix |-> sfx]
NoMemArg == MemArg(0, "absent")
MemArgs == {MemArg(8193, "K"), MemArg(4, "G"), MemArg(128, "")}

\* Command lines.  memory is NoMemArg when -memory is absent; stdout_path and
\* stdin_path are "", a path fopen opens, or a path fopen cannot open;
\* stdin_data is what the guest's stdin source holds.
Argv(k, i, m, p, o, n, d) ==
    [kernel |-> k, initrd |-> i, memory |-> m, protected |-> p,
     stdout_path |-> o, stdin_path |-> n, stdin_data |-> d]

\* The command lines of the loader specification.
LoadArgvs ==
    {Argv(TRUE, i, m, FALSE, "", "", << >>) :
        i \in BOOLEAN, m \in {NoMemArg} \cup MemArgs}
    \cup {Argv(FALSE, FALSE, NoMemArg, FALSE, "", "", << >>)}

\* The command lines of the whole-program specification.
BootArgvs ==
    {Argv(TRUE, i, NoMemArg, FALSE, o, n, d) :
        i \in BOOLEAN, o \in {"", "out.txt"}, n \in {"", "in.txt"},
        d \in {<< >>, <<104, 105>>}}
    \cup {Argv(TRUE, FALSE, NoMemArg, TRUE, "", "", <<104>>),
          Argv(TRUE, FALSE, NoMemArg, FALSE, "missing/out.txt", "", << >>),
          Argv(TRUE, FALSE, NoMemArg, FALSE, "", "missing/in.txt", << >>),
          Argv(TRUE, FALSE, MemArg(128, ""), FALSE, "", "", << >>),
          Argv(FALSE, FALSE, NoMemArg, FALSE, "", "", << >>)}

\* ------------------------------------------------------------------------
\* State
\* ------------------------------------------------------------------------

VARIABLES
    pc,          \* where the driver is: "main", "vm_init", "vcpu_init",
                 \* "load_elf32", "load_initrd", "vm_run", "kvm_run", "done",
                 \* or "killed" (the process died of a memory fault)
    exit_code,   \* the process's exit code once pc = "done", else -1
    args,        \* main's parsed command line
    kernel,      \* the file at the -kernel path, once load_elf32 opened it
    initrd,      \* the file at the -initrd path, once load_initrd opened it
    elf_ret,     \* load_elf32's return: "none" (not returned), "0", "-1"
    initrd_ret,  \* load_initrd's return, likewise
    diag,        \* the diagnostics written to stderr, in order
    mem_size,    \* vm.mem_size
    mem,         \* vm.mem: the copies made into it, in order, over zeroed RAM
    mmap,        \* vm.mmap
    entry,       \* main's entry
    regs,        \* the general-purpose registers vm_run wrote to the vCPU
    sregs,       \* the segment preset vm_run wrote to the vCPU
    io,          \* the shared region's port-I/O record and payload
    runs,        \* how many times KVM_RUN was requested
    kvm_exit,    \* the latest KVM_RUN: "none", "failed" (the ioctl failed),
                 \* or kvm_run->exit_reason: "hlt", "io", "mmio"
    wbuf,        \* per output stream: bytes written and not yet flushed
    sink,        \* per output stream: bytes that reached the file
    rsrc,        \* per input stream: bytes not yet read
    feof,        \* per input stream: the end-of-file indicator
    outs         \* the payload bytes of the guest's OUTs to port 0xE9, in order

vars ==
    <<pc, exit_code, args, kernel, initrd, elf_ret, initrd_ret, diag, mem_size,
      mem, mmap, entry, regs, sregs, io, runs, kvm_exit, wbuf, sink, rsrc,
      feof, outs>>

\* ------------------------------------------------------------------------
\* Guest memory
\* ------------------------------------------------------------------------

\* One memcpy into vm->mem: len bytes to guest address dst, taken from file
\* src ("kernel" or "initrd") at file offset off.
Copy(d, l, s, o) == [dst |-> d, len |-> l, src |-> s, off |-> o]

\* The copy writes no byte at or beyond guest address msize.
InBounds(c, msize) == c.len = Zero \/ LeW(AddW(c.dst, c.len), msize)

\* The index of the first copy of m that leaves guest memory, or 0.
FirstFault(m, msize) ==
    LET bad == {i \in 1..Len(m) : ~InBounds(m[i], msize)}
    IN  IF bad = {} THEN 0 ELSE CHOOSE i \in bad : \A j \in bad : i <= j

\* The copy writes guest address a.
Covers(c, a) == LeW(c.dst, a) /\ LtW(a, AddW(c.dst, c.len))

\* The byte of file src at offset o, for an ELF input f.
FileByte(f, src, o) ==
    IF src = "kernel" THEN f.bytes[o - DataOff + 1] ELSE InitrdFill

\* The guest memory byte at address a after the copies m (latest copy wins;
\* an address never written holds the 0 of the anonymous mapping).
RECURSIVE MemByteAt(_, _, _, _)
MemByteAt(m, f, a, i) ==
    IF i = 0 THEN 0
    ELSE IF Covers(m[i], a)
         THEN FileByte(f, m[i].src, m[i].off + ToInt(SubW(a, m[i].dst)))
         ELSE MemByteAt(m, f, a, i - 1)

MemByte(m, f, a) == MemByteAt(m, f, a, Len(m))

\* ------------------------------------------------------------------------
\* load_elf32 (src/src/elf.c)
\* ------------------------------------------------------------------------

\* Mutant of HeaderError: the e_machine check is missing.
HeaderError_NoMachineCheck(eh) ==
    IF eh.mag # ELFMAG THEN "not an ELF file"
    ELSE IF eh.class # ELFCLASS32 THEN "not a 32-bit ELF file"
    ELSE IF eh.data # ELFDATA2LSB THEN "not a little-endian ELF file"
    ELSE IF eh.iversion # EV_CURRENT THEN "invalid ELF version"
    ELSE IF eh.e_type # ET_EXEC THEN "not an executable ELF file"
    ELSE IF eh.e_version # EV_CURRENT THEN "invalid ELF version"
    ELSE ""

\* The seven header checks, in the order of the code: the diagnostic of the
\* first one that fails, or "" when the header passes.
HeaderError(eh) ==
    IF eh.mag # ELFMAG THEN "not an ELF file"
    ELSE IF eh.class # ELFCLASS32 THEN "not a 32-bit ELF file"
    ELSE IF eh.data # ELFDATA2LSB THEN "not a little-endian ELF file"
    ELSE IF eh.iversion # EV_CURRENT THEN "invalid ELF version"
    ELSE IF eh.e_type # ET_EXEC THEN "not an executable ELF file"
    ELSE IF eh.e_machine # EM_386 THEN "not an x86 ELF file"
    ELSE IF eh.e_version # EV_CURRENT THEN "invalid ELF version"
    ELSE ""

\* The bounds check of one PT_LOAD header: p_vaddr + p_memsz, computed in
\* uint32_t, is greater than mem_size.
SegmentOutOfBounds(ph, msize) == LtW(msize, Add32(ph.p_vaddr, ph.p_memsz))

\* The state of the segment loop before its first iteration.
LoopStart(m) ==
    [ret |-> "0", first_address |-> UINT32_MAX, last_address |-> Zero,
     copies |-> m, failed_at |-> 0]

\* One iteration of the segment loop on header ph (index i, from 1), from
\* loop state st.
LoadSegment(ph, i, msize, st) ==
    IF ph.p_type # PT_LOAD THEN st
    ELSE IF SegmentOutOfBounds(ph, msize)
         THEN [st EXCEPT !.ret = "-1", !.failed_at = i]
         ELSE LET segment_end == Add32(ph.p_vaddr, ph.p_memsz)
              IN  [st EXCEPT
                      !.copies = Append(@, Copy(ph.p_vaddr, ph.p_filesz, "kernel",
                                                ph.p_offset)),
                      !.first_address =
                          IF LtW(ph.p_vaddr, @) THEN ph.p_vaddr ELSE @,
                      !.last_address =
                          IF LtW(@, segment_end) THEN segment_end ELSE @]

\* The segment loop over headers i..e_phnum; it stops at the first failure.
RECURSIVE LoadSegments(_, _, _, _)
LoadSegments(phdrs, i, msize, st) ==
    IF i > Len(phdrs) \/ st.ret # "0" THEN st
    ELSE LoadSegments(phdrs, i + 1, msize, LoadSegment(phdrs[i], i, msize, st))

\* What load_elf32 records in vm->mmap after the loop.
KernelSpan(st, mm) ==
    [mm EXCEPT !.kernel_base = st.first_address,
               !.kernel_size = Sub32(st.last_address, st.first_address)]

\* ------------------------------------------------------------------------
\* Streams (stdio FILE objects) and formatting
\* ------------------------------------------------------------------------

OutStreams == {"stdout", "ofile"}
InStreams == {"stdin", "ifile"}

\* main's vm_stdout and vm_stdin: the process's own streams unless -stdout
\* or -stdin named a file.
VmStdout(a) == IF a.stdout_path = "" THEN "stdout" ELSE "ofile"
VmStdin(a) == IF a.stdin_path = "" THEN "stdin" ELSE "ifile"

\* fopen succeeds on this path.
CanOpen(path) == path \notin {"missing/out.txt", "missing/in.txt"}

\* fwrite / fprintf / printf: the bytes go to the stream's buffer.
Write(b, stream, bytes) == [b EXCEPT ![stream] = @ \o bytes]

\* fflush of one stream: what the sink holds afterwards.
Flushed(k, b, stream) == [k EXCEPT ![stream] = @ \o b[stream]]

\* exit() and the return from main flush every output stream.
FlushedAll(k, b) == [s \in OutStreams |-> k[s] \o b[s]]

NoBytes == [s \in OutStreams |-> << >>]

\* printf's %lu / %ld of n >= 0: its decimal digits as ASCII.
RECURSIVE Decimal(_)
Decimal(n) ==
    IF n < 10 THEN <<48 + n>> ELSE Decimal(n \div 10) \o <<48 + (n % 10)>>

\* printf's %x of n >= 0: its lower-case hexadecimal digits as ASCII.
HexDigit(d) == IF d < 10 THEN 48 + d ELSE 87 + d
RECURSIVE Hex(_)
Hex(n) ==
    IF n < 16 THEN <<HexDigit(n)>> ELSE Hex(n \div 16) \o <<HexDigit(n % 16)>>

\* "initrd loaded (base=0x%x, size=%lu)\n"
InitrdMessage(base, size) ==
    <<105, 110, 105, 116, 114, 100, 32, 108, 111, 97, 100, 101, 100, 32, 40,
      98, 97, 115, 101, 61, 48, 120>>
    \o Hex(ToInt(base))
    \o <<44, 32, 115, 105, 122, 101, 61>>
    \o Decimal(ToInt(size))
    \o <<41, 10>>

\* A diagnostic on stderr; arg is the number it prints, or -1.
Diag(msg, arg) == [msg |-> msg, arg |-> arg]

\* ------------------------------------------------------------------------
\* main (src/src/main.c), vm_init and vcpu_init (src/src/microvm.c)
\* ------------------------------------------------------------------------

\* main's memory_size: the default, or strtoul's number times the factor of
\* the suffix (K, M or G).
MemorySize(m) ==
    IF m.suffix = "absent" THEN DEFAULT_MEMORY_SIZE
    ELSE IF m.suffix = "K" THEN Norm(m.n \div 4, (m.n % 4) * 1024)
    ELSE IF m.suffix = "M" THEN Norm(m.n * 256, 0)
    ELSE Norm(m.n * 262144, 0)

\* The -memory suffix is one main accepts.
SuffixOk(m) == m.suffix \in {"absent", "K", "M", "G"}

\* The usage line names argv[0]; the diagnostics of main's early returns.
ParseError(a) ==
    IF ~SuffixOk(a.memory) THEN "Invalid memory size suffix"
    ELSE IF ~CanOpen(a.stdout_path) \/ ~CanOpen(a.stdin_path) THEN "fopen"
    ELSE IF ~a.kernel THEN "Usage"
    ELSE ""

EmptyMmap ==
    [kernel_base |-> Zero, kernel_size |-> Zero,
     initrd_base |-> Zero, initrd_size |-> Zero]

NoSregs == [mode |-> "unset", cs_selector |-> 0, cs_type |-> 0,
            ds_selector |-> 0, ds_type |-> 0, cr0_pe |-> FALSE]

NoIo == [direction |-> "none", port |-> 0, size |-> 0, data |-> << >>]

InitWith(argvs) ==
    /\ pc = "main"
    /\ exit_code = -1
    /\ args \in argvs
    /\ kernel = NoFile
    /\ initrd = NoFile
    /\ elf_ret = "none"
    /\ initrd_ret = "none"
    /\ diag = << >>
    /\ mem_size = Zero
    /\ mem = << >>
    /\ mmap = EmptyMmap
    /\ entry = Zero
    /\ regs = [rip |-> Zero, rflags |-> 0, rax |-> 0, rbx |-> Zero]
    /\ sregs = NoSregs
    /\ io = NoIo
    /\ runs = 0
    /\ kvm_exit = "none"
    /\ wbuf = NoBytes
    /\ sink = NoBytes
    /\ rsrc = [s \in InStreams |-> << >>]
    /\ feof = [s \in InStreams |-> FALSE]
    /\ outs = << >>

\* The process ends with `code`: exit() or main's return flush the streams.
Exit(code, bufs) ==
    /\ pc' = "done"
    /\ exit_code' = code
    /\ sink' = FlushedAll(sink, bufs)
    /\ wbuf' = NoBytes

\* main, lines 14-88: the argument loop and the kernel_filename check.
Main ==
    /\ pc = "main"
    /\ rsrc' = [rsrc EXCEPT ![VmStdin(args)] = args.stdin_data]
    /\ IF ParseError(args) # ""
       THEN /\ Exit(1, wbuf)
            /\ diag' = Append(diag, Diag(ParseError(args), -1))
       ELSE /\ pc' = "vm_init"
            /\ UNCHANGED <<exit_code, sink, wbuf, diag>>
    /\ UNCHANGED <<args, kernel, initrd, elf_ret, initrd_ret, mem_size, mem,
                   mmap, entry, regs, sregs, io, runs, kvm_exit, feof,
                   outs>>

\* vm_init: open /dev/kvm, check the API version, create the VM, map the
\* guest memory and register it; any host refusal exits with code 1.
VmInit ==
    /\ pc = "vm_init"
    /\ \E host_ok \in BOOLEAN :
          IF host_ok
          THEN /\ mem_size' = MemorySize(args.memory)
               /\ mem' = << >>
               /\ pc' = "vcpu_init"
               /\ UNCHANGED <<exit_code, sink, wbuf, diag>>
          ELSE /\ Exit(1, wbuf)
               /\ diag' = Append(diag, Diag("vm_init", -1))
               /\ UNCHANGED <<mem_size, mem>>
    /\ UNCHANGED <<args, kernel, initrd, elf_ret, initrd_ret, mmap, entry,
                   regs, sregs, io, runs, kvm_exit, rsrc, feof, outs>>

\* vcpu_init: create the vCPU and map its shared region.
VcpuInit ==
    /\ pc = "vcpu_init"
    /\ \E host_ok \in BOOLEAN :
          IF host_ok
          THEN /\ pc' = "load_elf32"
               /\ UNCHANGED <<exit_code, sink, wbuf, diag>>
          ELSE /\ Exit(1, wbuf)
               /\ diag' = Append(diag, Diag("vcpu_init", -1))
    /\ UNCHANGED <<args, kernel, initrd, elf_ret, initrd_ret, mem_size, mem,
                   mmap, entry, regs, sregs, io, runs, kvm_exit, rsrc, feof,
                   outs>>

\* Mutant of AfterKernel: main runs the vCPU without loading the initrd.
AfterKernel_SkipsInitrd(a) == "vm_run"

\* Where main goes after load_elf32 returned 0.
AfterKernel(a) == IF a.initrd THEN "load_initrd" ELSE "vm_run"

\* load_elf32 on the file f at the -kernel path, and main's check of its
\* return.  A memcpy that leaves the guest mapping is undefined: the process
\* either dies in it or goes on.
LoadElf32(files) ==
    /\ pc = "load_elf32"
    /\ \E f \in files :
          LET hdr_err == IF f.exists THEN HeaderError(f.ehdr) ELSE "open"
              st == IF hdr_err = ""
                    THEN LoadSegments(f.phdrs, 1, mem_size, LoopStart(mem))
                    ELSE [LoopStart(mem) EXCEPT !.ret = "-1"]
              err == IF hdr_err # "" THEN Diag(hdr_err, -1)
                     ELSE Diag("segment is out of memory bounds", st.failed_at - 1)
              fault == FirstFault(st.copies, mem_size)
          IN  /\ kernel' = f
              /\ entry' = IF f.exists THEN f.ehdr.e_entry ELSE entry
              /\ \/ /\ fault # 0
                    /\ pc' = "killed"
                    /\ mem' = SubSeq(st.copies, 1, fault)
                    /\ UNCHANGED <<exit_code, elf_ret, diag, mmap, sink, wbuf>>
                 \/ /\ mem' = st.copies
                    /\ elf_ret' = st.ret
                    /\ IF st.ret = "0"
                       THEN /\ mmap' = KernelSpan(st, mmap)
                            /\ pc' = AfterKernel(args)
                            /\ UNCHANGED <<exit_code, diag, sink, wbuf>>
                       ELSE /\ diag' = Append(diag, err)
                            /\ Exit(1, wbuf)
                            /\ UNCHANGED mmap
    /\ UNCHANGED <<args, initrd, initrd_ret, mem_size, regs, sregs, io, runs,
                   kvm_exit, rsrc, feof, outs>>

\* ------------------------------------------------------------------------
\* load_initrd (src/src/initrd.c)
\* ------------------------------------------------------------------------

\* INITRD_BASE lies in [kernel_base, kernel_base + kernel_size).
InitrdOverlapsKernel(mm) ==
    /\ LeW(mm.kernel_base, INITRD_BASE)
    /\ LtW(INITRD_BASE, AddW(mm.kernel_base, mm.kernel_size))

\* (size_t)(INITRD_BASE + st.st_size) > vm->mem_size
InitrdDoesNotFit(st_size, msize) == LtW(msize, AddW(INITRD_BASE, st_size))

\* Mutant of PageRound: the rounding is applied to page multiples too.
PageRound_AlwaysAdds(st_size) ==
    SubW(AddW(st_size, Bytes(PAGE_SIZE)), Bytes(st_size.off))

\* st_size rounded up to a multiple of PAGE_SIZE.
PageRound(st_size) ==
    IF st_size.off # 0
    THEN SubW(AddW(st_size, Bytes(PAGE_SIZE)), Bytes(st_size.off))
    ELSE st_size

\* The diagnostic of load_initrd's first failing step, or "".
InitrdError(f, mm, msize) ==
    IF ~f.exists THEN "open"
    ELSE IF f.st_size = Zero THEN "mmap"
    ELSE IF InitrdOverlapsKernel(mm) THEN "initrd overlaps with the kernel"
    ELSE IF InitrdDoesNotFit(f.st_size, msize)
         THEN "initrd does not fit in guest memory"
    ELSE ""

\* load_initrd on the file f at the -initrd path, and main's check of its
\* return.
LoadInitrd(files) ==
    /\ pc = "load_initrd"
    /\ \E f \in files :
          LET err == InitrdError(f, mmap, mem_size)
          IN  /\ initrd' = f
              /\ IF err = ""
                 THEN /\ mem' = Append(mem, Copy(INITRD_BASE, f.st_size, "initrd", 0))
                      /\ mmap' = [mmap EXCEPT !.initrd_base = INITRD_BASE,
                                              !.initrd_size = PageRound(f.st_size)]
                      /\ wbuf' = Write(wbuf, VmStdout(args),
                                       InitrdMessage(INITRD_BASE, f.st_size))
                      /\ initrd_ret' = "0"
                      /\ pc' = "vm_run"
                      /\ UNCHANGED <<exit_code, diag, sink>>
                 ELSE /\ initrd_ret' = "-1"
                      /\ diag' = Append(diag, Diag(err, -1))
                      /\ Exit(1, wbuf)
                      /\ UNCHANGED <<mem, mmap>>
    /\ UNCHANGED <<args, kernel, elf_ret, mem_size, entry, regs, sregs, io,
                   runs, kvm_exit, rsrc, feof, outs>>

\* ------------------------------------------------------------------------
\* vm_run (src/src/microvm.c): the bootstrap
\* ------------------------------------------------------------------------

\* setup_real_mode and setup_protected_mode: the fields they set.
SetupRealMode == [mode |-> "real", cs_selector |-> 0, cs_type |-> 0,
                  ds_selector |-> 0, ds_type |-> 0, cr0_pe |-> FALSE]
SetupProtectedMode == [mode |-> "protected", cs_selector |-> 8, cs_type |-> 11,
                       ds_selector |-> 16, ds_type |-> 3, cr0_pe |-> TRUE]

\* regs.rax, the boot cookie 0x0c00ffee.
BootCookie == 201392110

\* x & 0xfffff000 for a uint32_t x.
AndHigh20(x) == [pg |-> x.pg % Pages32, off |-> 0]

\* Mutant of PagesLow12: the shift is missing, x & 0xfff.
PagesLow12_NoShift(x) == x.off % 4096

\* Mutant of PagesLow12: the shift is by 10, (x >> 10) & 0xfff.
PagesLow12_Shift10(x) == (4 * x.pg + (x.off \div 1024)) % 4096

\* (x >> 12) & 0xfff for a size_t x.
PagesLow12(x) == x.pg % 4096

\* regs.rbx: (initrd_base & 0xfffff000) | ((initrd_size >> 12) & 0xfff).  The
\* two operands share no bit, so the bitwise or is their sum.
Rbx(mm) == AddW(AndHigh20(mm.initrd_base), Bytes(PagesLow12(mm.initrd_size)))

\* vm_run up to its loop: the segment preset and the register file.
VmRunBoot ==
    /\ pc = "vm_run"
    /\ \E host_ok \in BOOLEAN :
          IF host_ok
          THEN /\ sregs' = IF args.protected THEN SetupProtectedMode
                           ELSE SetupRealMode
               /\ regs' = [rip |-> entry, rflags |-> 2, rax |-> BootCookie,
                           rbx |-> Rbx(mmap)]
               /\ pc' = "kvm_run"
               /\ UNCHANGED <<exit_code, sink, wbuf, diag>>
          ELSE /\ Exit(1, wbuf)
               /\ diag' = Append(diag, Diag("vm_run", -1))
               /\ UNCHANGED <<sregs, regs>>
    /\ UNCHANGED <<args, kernel, initrd, elf_ret, initrd_ret, mem_size, mem,
                   mmap, entry, io, runs, kvm_exit, rsrc, feof, outs>>

\* ------------------------------------------------------------------------
\* vm_run (src/src/microvm.c): the exit loop
\* ------------------------------------------------------------------------

\* A port-I/O exit as KVM records it in the shared region.
IoExit(d, p, bytes) == [direction |-> d, port |-> p, size |-> Len(bytes), data |-> bytes]

\* The bytes the shared region holds at data_offset when an IN exit arrives.
Stale(n) == [i \in 1..n |-> 255]

\* The port-I/O exits the guest produces: OUTs of 1, 2 and 4 bytes to the
\* console, shutdown OUTs of 0x2000 (2 and 4 bytes), OUTs of other values to
\* the shutdown port, an OUT to another port, INs of 1, 2 and 4 bytes from
\* the console and an IN from another port.
IoExits ==
    {IoExit("out", STDOUT_PORT, d) : d \in {<<104>>, <<105, 106>>, <<107, 108, 109, 110>>}}
    \cup {IoExit("out", SHUTDOWN_PORT, d) :
            d \in {<<0, 32>>, <<0, 32, 0, 0>>, <<0>>, <<1, 32>>, <<0, 32, 1, 0>>}}
    \cup {IoExit("out", 128, <<104>>)}
    \cup {IoExit("in", STDIN_PORT, Stale(n)) : n \in {1, 2, 4}}
    \cup {IoExit("in", 128, Stale(1))}

\* rdtsc differences main prints.
CycleCounts == {2600, 5200}

\* memcpy(&value, data, size) into a zeroed uint32_t: the little-endian value.
Value32(bytes) ==
    LET b == [i \in 1..4 |-> IF i <= Len(bytes) THEN bytes[i] ELSE 0]
    IN  Norm(16 * b[3] + 4096 * b[4], b[1] + 256 * b[2])

\* "%ld cycles, %f us\n" with cycles / 2.6e9 * 1e6, for a multiple of 2600.
CyclesMessage(c) ==
    Decimal(c) \o <<32, 99, 121, 99, 108, 101, 115, 44, 32>>
    \o Decimal(c \div 2600) \o <<46, 48, 48, 48, 48, 48, 48>>
    \o <<32, 117, 115, 10>>

\* fread(&value, size, 1, f) on the unread bytes r: the bytes it stores in
\* value, what is left unread, its return and whether it sets end-of-file.
\* An element cut short by end-of-file returns 0; the bytes read so far are
\* in value (glibc copies them as it reads).  A stream whose end-of-file
\* indicator is set reads nothing more.
Fread(r, size, at_eof, read_error) ==
    IF at_eof
    THEN [got |-> << >>, rest |-> r, ret |-> 0, eof |-> TRUE]
    ELSE IF read_error
    THEN [got |-> << >>, rest |-> r, ret |-> 0, eof |-> FALSE]
    ELSE IF Len(r) >= size
         THEN [got |-> SubSeq(r, 1, size), rest |-> SubSeq(r, size + 1, Len(r)),
               ret |-> 1, eof |-> FALSE]
         ELSE [got |-> r, rest |-> << >>, ret |-> 0, eof |-> TRUE]

\* memcpy(p, &value, size): the first size bytes of the zero-initialised
\* value the read filled.
Payload(got, size) == [i \in 1..size |-> IF i <= Len(got) THEN got[i] ELSE 0]

\* The stream whose end-of-file indicator the IN handler tests.
EofTested(a) == "stdin"

\* Mutant of StdoutWrite: fwrite(p, 1, 1, ...) writes one byte whatever the
\* access size.
StdoutWrite_OneByte(e) ==
    /\ sink' = Flushed(sink, Write(wbuf, VmStdout(args), SubSeq(e.data, 1, 1)),
                       VmStdout(args))
    /\ wbuf' = [wbuf EXCEPT ![VmStdout(args)] = << >>]

\* Mutant of StdoutWrite: fwrite without the fflush.
StdoutWrite_NoFlush(e) ==
    /\ wbuf' = Write(wbuf, VmStdout(args), e.data)
    /\ sink' = sink

\* The handler of OUT to STDOUT_PORT: fwrite then fflush on vm_stdout.
StdoutWrite(e) ==
    /\ sink' = Flushed(sink, Write(wbuf, VmStdout(args), e.data), VmStdout(args))
    /\ wbuf' = [wbuf EXCEPT ![VmStdout(args)] = << >>]

\* vm_run returned 0: main prints the cycle count, closes the guest streams
\* and returns 0.
MainReturns ==
    \E c \in CycleCounts : Exit(0, Write(wbuf, "stdout", CyclesMessage(c)))

\* Mutant of IsShutdown: only a 2-byte OUT is taken for the command.
IsShutdown_WordOnly(e) ==
    e.port = SHUTDOWN_PORT /\ e.size = 2 /\ Value32(e.data) = Bytes(SHUTDOWN_VALUE)

\* Mutant of IsShutdown: any OUT to the shutdown port ends the run.
IsShutdown_AnyValue(e) == e.port = SHUTDOWN_PORT

\* The OUT is the shutdown command.
IsShutdown(e) == e.port = SHUTDOWN_PORT /\ Value32(e.data) = Bytes(SHUTDOWN_VALUE)

\* KVM_RUN fails on the host: perror and exit(1).
KvmRunFails ==
    /\ pc = "kvm_run"
    /\ runs < MaxExits
    /\ runs' = runs + 1
    /\ kvm_exit' = "failed"
    /\ diag' = Append(diag, Diag("KVM_RUN", -1))
    /\ Exit(1, wbuf)
    /\ UNCHANGED <<args, kernel, initrd, elf_ret, initrd_ret, mem_size, mem,
                   mmap, entry, regs, sregs, io, rsrc, feof, outs>>

\* KVM_EXIT_HLT: continue.
ExitHlt ==
    /\ pc = "kvm_run"
    /\ runs < MaxExits
    /\ runs' = runs + 1
    /\ kvm_exit' = "hlt"
    /\ UNCHANGED <<pc, exit_code, args, kernel, initrd, elf_ret, initrd_ret,
                   diag, mem_size, mem, mmap, entry, regs, sregs, io, wbuf,
                   sink, rsrc, feof, outs>>

\* Mutant of ExitUnexpected: the default case prints and lacks exit(1).
ExitUnexpected_Continues ==
    /\ pc = "kvm_run"
    /\ runs < MaxExits
    /\ runs' = runs + 1
    /\ kvm_exit' = "mmio"
    /\ diag' = Append(diag, Diag("Unexpected exit reason", 6))
    /\ UNCHANGED <<pc, exit_code, args, kernel, initrd, elf_ret, initrd_ret,
                   mem_size, mem, mmap, entry, regs, sregs, io, wbuf, sink,
                   rsrc, feof, outs>>

\* Any exit reason but HLT and IO (here KVM_EXIT_MMIO, 6): exit(1).
ExitUnexpected ==
    /\ pc = "kvm_run"
    /\ runs < MaxExits
    /\ runs' = runs + 1
    /\ kvm_exit' = "mmio"
    /\ diag' = Append(diag, Diag("Unexpected exit reason", 6))
    /\ Exit(1, wbuf)
    /\ UNCHANGED <<args, kernel, initrd, elf_ret, initrd_ret, mem_size, mem,
                   mmap, entry, regs, sregs, io, rsrc, feof, outs>>

\* KVM_EXIT_IO with direction OUT.
ExitIoOut ==
    /\ pc = "kvm_run"
    /\ runs < MaxExits
    /\ runs' = runs + 1
    /\ kvm_exit' = "io"
    /\ \E e \in {x \in IoExits : x.direction = "out"} :
          /\ io' = e
          /\ outs' = IF e.port = STDOUT_PORT THEN outs \o e.data ELSE outs
          /\ IF e.port = STDOUT_PORT
             THEN /\ StdoutWrite(e)
                  /\ UNCHANGED <<pc, exit_code>>
             ELSE IF IsShutdown(e)
                  THEN MainReturns
                  ELSE UNCHANGED <<pc, exit_code, sink, wbuf>>
    /\ UNCHANGED <<args, kernel, initrd, elf_ret, initrd_ret, diag, mem_size,
                   mem, mmap, entry, regs, sregs, rsrc, feof>>

\* KVM_EXIT_IO with direction IN.
ExitIoIn ==
    /\ pc = "kvm_run"
    /\ runs < MaxExits
    /\ runs' = runs + 1
    /\ kvm_exit' = "io"
    /\ \E e \in {x \in IoExits : x.direction = "in"}, read_error \in BOOLEAN :
          IF e.port = STDIN_PORT
          THEN LET r == Fread(rsrc[VmStdin(args)], e.size, feof[VmStdin(args)],
                              read_error)
                   eofs == [feof EXCEPT ![VmStdin(args)] = @ \/ r.eof]
               IN  /\ rsrc' = [rsrc EXCEPT ![VmStdin(args)] = r.rest]
                   /\ feof' = eofs
                   /\ IF r.ret = 0 /\ ~eofs[EofTested(args)]
                      THEN /\ diag' = Append(diag, Diag("failed to read from vm_stdin", -1))
                           /\ Exit(1, wbuf)
                           /\ io' = e
                      ELSE /\ io' = [e EXCEPT !.data = Payload(r.got, e.size)]
                           /\ UNCHANGED <<pc, exit_code, sink, wbuf, diag>>
          ELSE /\ io' = e
               /\ ~read_error
               /\ UNCHANGED <<pc, exit_code, sink, wbuf, diag, rsrc, feof>>
    /\ UNCHANGED <<args, kernel, initrd, elf_ret, initrd_ret, mem_size, mem,
                   mmap, entry, regs, sregs, outs>>

Init == InitWith(BootArgvs)

Next ==
    \/ Main
    \/ VmInit
    \/ VcpuInit
    \/ LoadElf32(BootKernels)
    \/ LoadInitrd({InitrdFile(Bytes(5000)), NoFile})
    \/ VmRunBoot
    \/ KvmRunFails
    \/ ExitHlt
    \/ ExitUnexpected
    \/ ExitIoOut
    \/ ExitIoIn

Spec == Init /\ [][Next]_vars

InitLoad == InitWith(LoadArgvs)

NextLoad ==
    \/ Main
    \/ VmInit
    \/ VcpuInit
    \/ LoadElf32(ElfFiles)
    \/ LoadInitrd(InitrdFiles)
    \/ VmRunBoot

SpecLoad == InitLoad /\ [][NextLoad]_vars

\* ------------------------------------------------------------------------
\* Claims
\* ------------------------------------------------------------------------

\* C1: every copy into vm->mem, by load_elf32 or load_initrd, ends at or
\* below mem_size: destination + length <= mem_size.
C1_CopiesStayBelowMemSize ==
    \A i \in 1..Len(mem) : LeW(AddW(mem[i].dst, mem[i].len), mem_size)

\* The PT_LOAD headers of the loaded ELF file, by index.
LoadableIndexes ==
    IF kernel.exists
    THEN {i \in 1..Len(kernel.phdrs) : kernel.phdrs[i].p_type = PT_LOAD}
    ELSE {}

\* C2: after load_elf32 returns 0 the recorded kernel span lies inside guest
\* memory, kernel_base + kernel_size <= mem_size, also for an ELF file with
\* no PT_LOAD header.
C2_KernelSpanInsideMemory ==
    elf_ret = "0" => LeW(AddW(mmap.kernel_base, mmap.kernel_size), mem_size)

\* C3: after load_initrd returns 0 the page-rounded initrd span lies inside
\* guest memory, initrd_base + initrd_size <= mem_size.
C3_InitrdSpanInsideMemory ==
    initrd_ret = "0" => LeW(AddW(mmap.initrd_base, mmap.initrd_size), mem_size)

\* C4: after load_elf32 and load_initrd both returned 0 the initrd span and
\* the kernel span are disjoint.
C4_KernelInitrdDisjoint ==
    (elf_ret = "0" /\ initrd_ret = "0") =>
        \/ LeW(AddW(mmap.kernel_base, mmap.kernel_size), mmap.initrd_base)
        \/ LeW(AddW(mmap.initrd_base, mmap.initrd_size), mmap.kernel_base)

\* The guest addresses the copies m wrote, for copies of a few bytes.
WrittenAddrs(m) ==
    {AddW(m[i].dst, Bytes(k)) : i \in 1..Len(m), k \in 0..2}

\* Guest address a is a byte of guest memory and holds byte b.
GuestByteIs(a, b) == LtW(a, mem_size) /\ MemByte(mem, kernel, a) = b

\* C5: after load_elf32 accepted an ELF file, for every PT_LOAD header the
\* guest bytes [p_vaddr, p_vaddr + p_filesz) equal the file bytes from
\* p_offset on, and the guest bytes [p_vaddr + p_filesz, p_vaddr + p_memsz)
\* are zero.  (Guest memory is zero wherever no copy wrote, so the second
\* part is read at the first and the last byte of the range and at every
\* written address inside it.)
C5_SegmentsAreFaithful ==
    (elf_ret = "0" /\ initrd_ret = "none") =>
        \A i \in LoadableIndexes :
            LET ph == kernel.phdrs[i]
                bss_lo == AddW(ph.p_vaddr, ph.p_filesz)
                bss_hi == AddW(ph.p_vaddr, ph.p_memsz)
            IN  /\ \A k \in 0..(ToInt(ph.p_filesz) - 1) :
                       GuestByteIs(AddW(ph.p_vaddr, Bytes(k)),
                                   kernel.bytes[ph.p_offset + k - DataOff + 1])
                /\ \A a \in WrittenAddrs(mem) \cup {bss_lo, SubW(bss_hi, Bytes(1))} :
                       (LeW(bss_lo, a) /\ LtW(a, bss_hi)) => GuestByteIs(a, 0)

\* C6: when load_elf32 accepts an ELF file with no PT_LOAD header it records
\* kernel_base = 0 and kernel_size = 0.
C6_NoSegmentsGiveEmptySpan ==
    (elf_ret = "0" /\ LoadableIndexes = {}) =>
        (mmap.kernel_base = Zero /\ mmap.kernel_size = Zero)

\* The vCPU's registers were written.
Booted == regs.rax = BootCookie

\* C7: the rbx vm_run writes before the first run has, when an initrd was
\* loaded, rbx & 0xFFFFF000 = initrd_base and rbx & 0xFFF = (initrd_size /
\* 4096) mod 4096, a 5000-byte initrd giving 0x00800002; when no initrd was
\* loaded rbx = 0.
C7_BootRegisterEncoding ==
    Booted =>
        IF initrd_ret = "0"
        THEN /\ [pg |-> regs.rbx.pg, off |-> 0] = mmap.initrd_base
             /\ regs.rbx.off = (mmap.initrd_size.pg % 4096)
             /\ mmap.initrd_size.off = 0
             /\ (initrd.st_size = Bytes(5000) => regs.rbx = Bytes(8388610))
        ELSE regs.rbx = Zero

\* C7 witness: a 5000-byte initrd was loaded and the vCPU booted with
\* rbx = 0x00800002.
C7_Witness ==
    /\ pc = "kvm_run"
    /\ initrd_ret = "0"
    /\ initrd.st_size = Bytes(5000)
    /\ regs.rbx = Bytes(8388610)

\* What the hypervisor itself wrote to the guest's stdout stream before the
\* first run: load_initrd's message, when it succeeded.
LoaderOutput ==
    IF initrd_ret = "0" THEN InitrdMessage(INITRD_BASE, initrd.st_size) ELSE << >>

\* What main wrote to the guest's stdout stream after vm_run returned: the
\* cycle line, when the stream is the process's stdout.
DriverOutputs ==
    IF pc = "done" /\ exit_code = 0 /\ VmStdout(args) = "stdout"
    THEN {CyclesMessage(c) : c \in CycleCounts}
    ELSE {<< >>}

\* C8: the payload bytes of the guest's OUTs to port 0xE9 are written to the
\* guest's stdout stream once each and in the order issued: after the
\* loader's own output the stream holds exactly the OUT payloads, in order,
\* followed by nothing but what the driver prints on return.
C8_OutputInGuestOrder ==
    (Booted /\ pc \in {"kvm_run", "done"}) =>
        \E tail \in DriverOutputs :
            sink[VmStdout(args)] \o wbuf[VmStdout(args)]
                = LoaderOutput \o outs \o tail

\* C8 witness: three OUTs of 1, 2 and 4 bytes were handled and the stream
\* holds their seven bytes in order.
C8_Witness ==
    /\ pc = "kvm_run"
    /\ runs = 3
    /\ initrd_ret = "none"
    /\ outs = <<105, 106, 104, 107, 108, 109, 110>>
    /\ sink[VmStdout(args)] = <<105, 106, 104, 107, 108, 109, 110>>

\* This step handles an OUT of 0x2000 to port 0x604, as 2 or 4 bytes.
ShutdownOutStep ==
    /\ runs' = runs + 1
    /\ io'.direction = "out"
    /\ io'.port = 1540
    /\ io'.data \in {<<0, 32>>, <<0, 32, 0, 0>>}

\* C9: the exit that is an OUT of 0x2000 to port 0x604 ends the process with
\* exit code 0, and once the process has ended the vCPU is not run again.
C9_ShutdownEndsTheRun ==
    /\ [][ShutdownOutStep => (pc' = "done" /\ exit_code' = 0)]_vars
    /\ [][pc = "done" => (runs' = runs /\ pc' = "done" /\ exit_code' = exit_code)]_vars

\* C9 witness: the guest wrote to the console, then a 4-byte OUT of 0x2000
\* to port 0x604 ended the process with code 0.
C9_Witness ==
    /\ pc = "done"
    /\ exit_code = 0
    /\ runs = 2
    /\ outs # << >>
    /\ io = IoExit("out", 1540, <<0, 32, 0, 0>>)

\* This step handles an IN from port 0xE9 that finds the guest's stdin
\* source at end-of-file.
StdinEofStep ==
    /\ runs' = runs + 1
    /\ io'.direction = "in"
    /\ io'.port = 233
    /\ rsrc[VmStdin(args)] = << >>
    /\ feof'[VmStdin(args)]

\* C10: an IN from port 0xE9 at end-of-file of the guest's stdin source is
\* not fatal, with the default source or a -stdin file: the payload is all
\* zero and the loop goes on to the next run.
C10_EofIsNotFatal ==
    [][StdinEofStep =>
          (pc' = "kvm_run" /\ io'.data = [i \in 1..io'.size |-> 0])]_vars

\* C11: when the run ended in a clean shutdown, the guest's stdout sink holds
\* exactly the payload bytes of the guest's OUTs to port 0xE9, in order, and
\* no byte the hypervisor wrote itself.
C11_SinkIsGuestOutput ==
    (pc = "done" /\ exit_code = 0) => sink[VmStdout(args)] = outs

\* The header passes the seven checks: magic 0x7F 'E' 'L' 'F', 32-bit class,
\* little-endian data, current identification version, executable type,
\* machine EM_386, current header version.
PassesSevenChecks(eh) ==
    /\ eh.mag = <<127, 69, 76, 70>>
    /\ eh.class = 1
    /\ eh.data = 1
    /\ eh.iversion = 1
    /\ eh.e_type = 2
    /\ eh.e_machine = 3
    /\ eh.e_version = 1

\* load_elf32 failed on the file and the process ended with code 1 before
\* the vCPU was set up, the kernel span as it was before the call.
ElfRejected ==
    /\ elf_ret = "-1"
    /\ mmap.kernel_base = Zero
    /\ mmap.kernel_size = Zero
    /\ pc = "done"
    /\ exit_code = 1
    /\ ~Booted
    /\ runs = 0

\* C12: when the ELF header passes validation and some PT_LOAD header has
\* p_vaddr + p_memsz > mem_size, load_elf32 fails, the kernel span keeps its
\* prior value, the process exits with code 1 and the vCPU is never run.
C12_OutOfBoundsSegmentFails ==
    (/\ kernel.exists
     /\ PassesSevenChecks(kernel.ehdr)
     /\ \E i \in LoadableIndexes :
            LtW(mem_size, AddW(kernel.phdrs[i].p_vaddr, kernel.phdrs[i].p_memsz)))
    => ElfRejected

\* C13: a header that fails one of the seven checks makes load_elf32 fail
\* before it looks at a program header, so no byte of guest memory is
\* written and the mmap record is unchanged; a header that passes all seven
\* is not rejected by header validation (if load_elf32 fails on it, it
\* fails on a segment).
C13_HeaderValidation ==
    kernel.exists =>
        IF PassesSevenChecks(kernel.ehdr)
        THEN elf_ret = "-1" =>
                diag[Len(diag)].msg = "segment is out of memory bounds"
        ELSE ElfRejected /\ mem = << >> /\ mmap = EmptyMmap

\* C13 witness: a file with a wrong e_machine and a PT_LOAD header was
\* rejected, and guest memory was not written.
C13_Witness ==
    /\ pc = "done"
    /\ kernel.exists
    /\ kernel.ehdr.e_machine = 62
    /\ Len(kernel.phdrs) = 1
    /\ elf_ret = "-1"
    /\ mem = << >>

\* load_initrd failed with diagnostic msg: it copied nothing into guest
\* memory and left initrd_base and initrd_size at 0.
InitrdRejected(msg) ==
    /\ initrd_ret = "-1"
    /\ diag[Len(diag)].msg = msg
    /\ \A i \in 1..Len(mem) : mem[i].src # "initrd"
    /\ mmap.initrd_base = Zero
    /\ mmap.initrd_size = Zero

\* C14: load_initrd checks in order: when 0x00800000 lies in [kernel_base,
\* kernel_base + kernel_size) it fails with the overlap error whatever the
\* file size; otherwise when 0x00800000 + file size > mem_size it fails with
\* the does-not-fit error; either way guest memory is not written and
\* initrd_base and initrd_size stay 0.
C14_InitrdCheckOrder ==
    (initrd.exists /\ initrd_ret # "none") =>
        IF /\ LeW(mmap.kernel_base, Bytes(8388608))
           /\ LtW(Bytes(8388608), AddW(mmap.kernel_base, mmap.kernel_size))
        THEN InitrdRejected("initrd overlaps with the kernel")
        ELSE LtW(mem_size, AddW(Bytes(8388608), initrd.st_size)) =>
                InitrdRejected("initrd does not fit in guest memory")

\* C15: after a KVM_RUN that failed on the host, or that returned an exit
\* reason other than HLT and IO, the process has ended with exit code 1: the
\* vCPU is not run again and vm_run has not returned 0.
C15_FatalExitsEndTheRun ==
    /\ [](kvm_exit \notin {"none", "hlt", "io"} => (pc = "done" /\ exit_code = 1))
    /\ [][(runs' = runs + 1 /\ kvm_exit' \notin {"hlt", "io"}) =>
            (/\ pc' = "done"
             /\ exit_code' = 1
             /\ \A f \in {"stdout", "ofile"} : sink'[f] = sink[f] \o wbuf[f])]_vars

\* C15 witness: after guest output and two exits handled, the third run
\* returned an unexpected exit reason and the process ended with code 1.
C15_Witness ==
    /\ pc = "done"
    /\ exit_code = 1
    /\ runs = 3
    /\ kvm_exit = "mmio"
    /\ outs # << >>

\* A step of main before the loaders failed: argument parsing, vm_init,
\* vcpu_init or the register setup of vm_run.
SetupFailed ==
    \E i \in 1..Len(diag) :
        diag[i].msg \in {"Invalid memory size suffix", "fopen", "Usage",
                         "vm_init", "vcpu_init", "vm_run"}

\* C16: guest memory and the mmap record are written only before the first
\* run of the vCPU; load_initrd runs only after load_elf32 returned 0; the
\* vCPU runs only after every requested load succeeded, and never after a
\* loader or a setup step failed.
C16_LoadsBeforeFirstRun ==
    /\ [][runs' > 0 => (mem' = mem /\ mmap' = mmap)]_vars
    /\ [][initrd_ret' # initrd_ret => (elf_ret = "0" /\ elf_ret' = "0")]_vars
    /\ [](runs > 0 =>
            (/\ elf_ret = "0"
             /\ initrd_ret = (IF args.initrd THEN "0" ELSE "none")))
    /\ []((elf_ret = "-1" \/ initrd_ret = "-1" \/ SetupFailed) => runs = 0)

\* C16 witness: the vCPU ran for the first time after a segment copy and
\* the initrd copy.
C16_Witness ==
    /\ pc = "kvm_run"
    /\ runs = 1
    /\ elf_ret = "0"
    /\ initrd_ret = "0"
    /\ Len(mem) = 2

\* The last n elements of sequence q.
LastOf(q, n) == SubSeq(q, Len(q) - n + 1, Len(q))

\* C17: whenever the guest is about to be resumed, and so also when the
\* next exit is the shutdown OUT on which vm_run returns, every byte the
\* guest has OUT to port 0xE9 is in the stdout sink, flushed, as the last
\* bytes written there.
C17_GuestOutputIsFlushed ==
    pc = "kvm_run" =>
        /\ Len(sink[VmStdout(args)]) >= Len(outs)
        /\ LastOf(sink[VmStdout(args)], Len(outs)) = outs
        /\ (outs # << >> => wbuf[VmStdout(args)] = << >>)

\* C17 witness: two OUTs to port 0xE9 reached a -stdout file after an
\* initrd was loaded, and the guest is about to be resumed.
C17_Witness ==
    /\ pc = "kvm_run"
    /\ runs = 2
    /\ outs = <<104, 105, 106>>
    /\ args.stdout_path = "out.txt"
    /\ initrd_ret = "0"
    /\ wbuf["ofile"] = << >>

\* C18: after a successful load_initrd, initrd_base = 0x00800000 and
\* initrd_size is the least multiple of 4096 that is >= the file size, so
\* both are multiples of 4096.
C18_InitrdPageAligned ==
    initrd_ret = "0" =>
        /\ mmap.initrd_base = Bytes(8388608)
        /\ mmap.initrd_base.off = 0
        /\ mmap.initrd_size.off = 0
        /\ LeW(initrd.st_size, mmap.initrd_size)
        /\ LtW(mmap.initrd_size, AddW(initrd.st_size, Bytes(4096)))

\* C18 witness: an initrd of 16 MiB + 1 bytes was loaded and recorded as
\* 4097 pages.
C18_Witness ==
    /\ initrd_ret = "0"
    /\ initrd.st_size = Norm(4096, 1)
    /\ mmap.initrd_size = Norm(4097, 0)

\* C19: after load_elf32 accepted an ELF file with at least one PT_LOAD
\* header, kernel_base is the least p_vaddr of the PT_LOAD headers and
\* kernel_base + kernel_size is the greatest p_vaddr + p_memsz of the
\* PT_LOAD headers; other headers play no part.
C19_KernelSpanIsMinMax ==
    (elf_ret = "0" /\ LoadableIndexes # {}) =>
        /\ \E i \in LoadableIndexes :
               /\ mmap.kernel_base = kernel.phdrs[i].p_vaddr
               /\ \A j \in LoadableIndexes :
                      LeW(kernel.phdrs[i].p_vaddr, kernel.phdrs[j].p_vaddr)
        /\ \E i \in LoadableIndexes :
               LET end(k) == AddW(kernel.phdrs[k].p_vaddr, kernel.phdrs[k].p_memsz)
               IN  /\ AddW(mmap.kernel_base, mmap.kernel_size) = end(i)
                   /\ \A j \in LoadableIndexes : LeW(end(j), end(i))

\* This step handles an exit the loop ignores: HLT, a port-I/O exit that is
\* none of OUT 0xE9, OUT 0x604 and IN 0xE9, or an OUT to port 0x604 of a
\* value other than 0x2000.
IgnoredExitStep ==
    /\ runs' = runs + 1
    /\ \/ kvm_exit' = "hlt"
       \/ /\ kvm_exit' = "io"
          /\ \/ io'.direction = "out" /\ io'.port \notin {233, 1540}
             \/ io'.direction = "in" /\ io'.port # 233
             \/ /\ io'.direction = "out"
                /\ io'.port = 1540
                /\ io'.data \notin {<<0, 32>>, <<0, 32, 0, 0>>}

\* C20: an ignored exit has no effect: nothing is written to the stdout
\* sink, nothing is read from the stdin source, the payload in the shared
\* region, guest memory and the mmap record are as they were, no diagnostic
\* is printed, and the loop goes on to the next run.
C20_IgnoredExitsHaveNoEffect ==
    [][IgnoredExitStep =>
          (/\ pc' = "kvm_run"
           /\ exit_code' = exit_code
           /\ sink' = sink
           /\ wbuf' = wbuf
           /\ rsrc' = rsrc
           /\ feof' = feof
           /\ mem' = mem
           /\ mmap' = mmap
           /\ diag' = diag
           /\ IF kvm_exit' = "hlt"
              THEN io' = io
              ELSE io'.direction = "in" =>
                      io'.data = [i \in 1..io'.size |-> 255])]_vars

\* C20 witness: a HLT, an OUT of 0x2001 to port 0x604 and an IN from
\* another port were handled in turn, and the loop is still running with
\* nothing written.
C20_Witness ==
    /\ pc = "kvm_run"
    /\ runs = 3
    /\ kvm_exit = "io"
    /\ io.direction = "in"
    /\ io.port = 128
    /\ sink = [s \in {"stdout", "ofile"} |-> << >>]
    /\ outs = << >>

\* This step handles an IN from port 0xE9.
StdinInStep ==
    /\ runs' = runs + 1
    /\ kvm_exit' = "io"
    /\ io'.direction = "in"
    /\ io'.port = 233

\* The step ended the process on a read error of the stdin source: nothing
\* was read and the source did not reach end-of-file.
ReadErrorStep ==
    /\ pc' = "done"
    /\ rsrc' = rsrc
    /\ feof' = feof

\* C21: an IN of size bytes from port 0xE9 delivers, in the payload, the
\* next size unread bytes of the stdin source in source order, or, when
\* fewer remain, the remaining bytes followed by zeros; the bytes delivered
\* are consumed, so that over a sequence of INs each byte is delivered at
\* most once and in order.  (A read error of the source is the fatal case
\* and delivers nothing.)
C21_InDeliversNextBytes ==
    [][(StdinInStep /\ ~ReadErrorStep) =>
          LET unread == rsrc[VmStdin(args)]
              k == IF Len(unread) < io'.size THEN Len(unread) ELSE io'.size
          IN  /\ pc' = "kvm_run"
              /\ io'.data = SubSeq(unread, 1, k) \o [i \in 1..(io'.size - k) |-> 0]
              /\ rsrc'[VmStdin(args)] = SubSeq(unread, k + 1, Len(unread))]_vars

\* rbx & 0xFFFFF000 and (rbx & 0xFFF) * 4096: what a guest decodes from the
\* descriptor.
DecodedBase(rbx) == [pg |-> rbx.pg, off |-> 0]
DecodedSize(rbx) == [pg |-> rbx.off, off |-> 0]

\* The descriptor the vCPU was booted with gives back the recorded initrd
\* span.
RbxIsLossless ==
    /\ DecodedBase(regs.rbx) = mmap.initrd_base
    /\ DecodedSize(regs.rbx) = mmap.initrd_size

\* C22 as stated: for a loaded initrd whose size in 4096-byte pages fits in
\* 24 bits, initrd_base = rbx & 0xFFFFF000 and initrd_size = (rbx & 0xFFF)
\* * 4096.
C22_LosslessUpTo24Bits ==
    (Booted /\ initrd_ret = "0" /\ mmap.initrd_size.pg < 16777216)
        => RbxIsLossless

\* C22 amended: for a loaded initrd whose size in 4096-byte pages fits in
\* 12 bits (initrd_size < 16 MiB), initrd_base = rbx & 0xFFFFF000 and
\* initrd_size = (rbx & 0xFFF) * 4096; the descriptor determines the span,
\* so two such loads with different spans never give the same rbx.
C22_LosslessUpTo12Bits ==
    (Booted /\ initrd_ret = "0" /\ mmap.initrd_size.pg < 4096)
        => RbxIsLossless

\* C22 witness: an initrd of 4095 pages was loaded and the vCPU booted with
\* rbx = 0x00800FFF.
C22_Witness ==
    /\ pc = "kvm_run"
    /\ initrd_ret = "0"
    /\ mmap.initrd_size = Norm(4095, 0)
    /\ regs.rbx = Norm(2048, 4095)

====
